---- MODULE Spec2Model ----
(***************************************************************************)
(* Model of the SVG clip-path generator.                                   *)
(*                                                                         *)
(*   src/unnamed/part_000  geometry-aware version: svgpath pipeline        *)
(*                         (abs/unarc/unshort), calculateBounds,           *)
(*                         normalizePathTo01, paths only                   *)
(*   src/src/App.vue       shape version: shapeToPath and the regex-based  *)
(*                         normalizePathCoordinates                        *)
(*                                                                         *)
(* Path data is a sequence of tokens (command letters and numbers).        *)
(* Numbers are fixed-point integers counting 10^-6 units, the precision    *)
(* of round(6) / toFixed(6); a quotient is computed exactly and then       *)
(* rounded to 6 decimals as toFixed does.                                  *)
(***************************************************************************)
EXTENDS Integers, Sequences, FiniteSets, TLC

VARIABLES
  pc,            \* position of the modelled run
  pathString,    \* normalizePathTo01 / normalizePathCoordinates: the input text
  segments,      \* normalizePathTo01: path.segments after abs().unarc().unshort()
  normalized,    \* what the normalizer called last returned for pathString
  walk,          \* calculateBounds: the forEach state (index, box and cursor)
  doc,           \* convertToNormalizedClipPath: the document being converted
  clip,          \* convertToNormalizedClipPath: outcome of the conversion
  fileInput,     \* ref fileInput: the name of the File, or "null"
  normalizedSVG, \* ref normalizedSVG: <<>> for '', else <<the output's paths>>
  readers,       \* the files of the FileReaders whose read has not completed
  lastLoad,      \* what the handler that ran last reported
  downloaded     \* the last download made by onDownloadFile

vars == <<pc, pathString, segments, normalized, walk, doc, clip,
          fileInput, normalizedSVG, readers, lastLoad, downloaded>>

---------------------------------------------------------------------------
\* Bounds of the model
MaxCoord == 2
MaxLen == 3
MaxShapes == 2
MaxPending == 2

\* round(6), toFixed(6)
Digits == 6
Unit == 10 ^ Digits
Half == Unit \div 2
\* stands for JavaScript's Infinity: larger than every coordinate of the model
Infinity == 1000000000

Coord == 0 .. MaxCoord
U(c) == c * Unit

---------------------------------------------------------------------------
\* Path data text: tokens

Cmd(c) == [c |-> c, v |-> 0]
Num(v) == [c |-> "#", v |-> v]
Seg(k, a) == [k |-> k, a |-> a]

RelativeCmds == {"m", "l", "h", "v", "c", "s", "q", "t", "a", "z"}

toUpperCase(c) ==
  CASE c = "m" -> "M" [] c = "l" -> "L" [] c = "h" -> "H" [] c = "v" -> "V"
    [] c = "c" -> "C" [] c = "s" -> "S" [] c = "q" -> "Q" [] c = "t" -> "T"
    [] c = "a" -> "A" [] c = "z" -> "Z" [] OTHER -> c

\* svgpath path_parse.js: number of parameters of each command (-1: no command)
paramCounts(c) ==
  CASE toUpperCase(c) \in {"M", "L", "T"} -> 2
    [] toUpperCase(c) \in {"H", "V"} -> 1
    [] toUpperCase(c) = "C" -> 6
    [] toUpperCase(c) \in {"S", "Q"} -> 4
    [] toUpperCase(c) = "A" -> 7
    [] toUpperCase(c) = "Z" -> 0
    [] OTHER -> -1

RECURSIVE scanSegments(_, _, _)
\* svgpath path_parse.js: segments read from token i on, cmd being the command
\* repeated by a bare parameter group; a segment "!" marks a parse error
scanSegments(toks, i, cmd) ==
  IF i > Len(toks) THEN <<>>
  ELSE LET isNum == toks[i].c = "#"
           c == IF isNum THEN cmd ELSE toks[i].c
           n == paramCounts(c)
           from == IF isNum THEN i ELSE i + 1
       IN IF n < 0 \/ (isNum /\ n = 0) \/ from + n - 1 > Len(toks)
          THEN <<Seg("!", <<>>)>>
          ELSE IF \E j \in from .. from + n - 1 : toks[j].c # "#"
          THEN <<Seg("!", <<>>)>>
          ELSE <<Seg(c, [j \in 1 .. n |-> toks[from + j - 1].v])>>
               \o scanSegments(toks, from + n,
                    IF c = "M" THEN "L" ELSE IF c = "m" THEN "l" ELSE c)

\* svgpath(pathString).segments: empty on an error or when the text does not
\* start with a moveto; a leading "m" is read as "M"
pathParse(toks) ==
  LET r == scanSegments(toks, 1, "")
  IN IF r = <<>> THEN <<>>
     ELSE IF \E i \in 1 .. Len(r) : r[i].k = "!" THEN <<>>
     ELSE IF r[1].k \notin {"M", "m"} THEN <<>>
     ELSE [r EXCEPT ![1].k = "M"]

RECURSIVE toStringFrom(_, _)
\* svgpath toString: the command letter is left out when it repeats the
\* previous segment's (never for a moveto)
toStringFrom(segs, i) ==
  IF i > Len(segs) THEN <<>>
  ELSE LET s == segs[i]
           skipCmd == i > 1 /\ s.k \notin {"m", "M"} /\ s.k = segs[i - 1].k
       IN (IF skipCmd THEN <<>> ELSE <<Cmd(s.k)>>)
          \o [j \in 1 .. Len(s.a) |-> Num(s.a[j])]
          \o toStringFrom(segs, i + 1)

toString(segs) == toStringFrom(segs, 1)

RECURSIVE pathText(_, _)
\* an input text that writes every command letter, as in "M10,10 L110,10 Z"
pathText(segs, i) ==
  IF i > Len(segs) THEN <<>>
  ELSE <<Cmd(segs[i].k)>> \o [j \in 1 .. Len(segs[i].a) |-> Num(segs[i].a[j])]
       \o pathText(segs, i + 1)

---------------------------------------------------------------------------
\* svgpath: iterate, abs, unarc, unshort

\* svgpath iterate: the current point and contour start after absolute segment s
cursorAfter(s, cur) ==
  CASE s.k = "M" -> [x |-> s.a[1], y |-> s.a[2], sx |-> s.a[1], sy |-> s.a[2]]
    [] s.k = "H" -> [cur EXCEPT !.x = s.a[1]]
    [] s.k = "V" -> [cur EXCEPT !.y = s.a[1]]
    [] s.k = "Z" -> [cur EXCEPT !.x = cur.sx, !.y = cur.sy]
    [] OTHER -> [cur EXCEPT !.x = s.a[Len(s.a) - 1], !.y = s.a[Len(s.a)]]

origin == [x |-> 0, y |-> 0, sx |-> 0, sy |-> 0]

\* svgpath abs: one segment made absolute at current point (x, y)
absSegment(s, x, y) ==
  IF s.k \notin RelativeCmds THEN s
  ELSE Seg(toUpperCase(s.k),
         CASE s.k = "v" -> <<s.a[1] + y>>
           [] s.k = "a" -> [s.a EXCEPT ![6] = @ + x, ![7] = @ + y]
           [] OTHER -> [i \in 1 .. Len(s.a) |->
                          s.a[i] + (IF i % 2 = 1 THEN x ELSE y)])

RECURSIVE absFrom(_, _, _)
absFrom(segs, i, cur) ==
  IF i > Len(segs) THEN <<>>
  ELSE LET s == absSegment(segs[i], cur.x, cur.y)
       IN <<s>> \o absFrom(segs, i + 1, cursorAfter(s, cur))

abs(segs) == absFrom(segs, 1, origin)

\* svgpath a2c: an arc with a zero radius or with equal end points has no
\* curve and unarc writes a line; otherwise a2c computes cubic curves by
\* trigonometry, which is not computed here: ctl, any two points, stands for
\* the control points it produces
unarcSegment(s, x, y, ctl) ==
  IF s.k # "A" THEN s
  ELSE IF s.a[1] = 0 \/ s.a[2] = 0 \/ (s.a[6] = x /\ s.a[7] = y)
       THEN Seg("L", <<s.a[6], s.a[7]>>)
       ELSE Seg("C", <<ctl[1][1], ctl[1][2], ctl[2][1], ctl[2][2], s.a[6], s.a[7]>>)

RECURSIVE unarcFrom(_, _, _, _)
unarcFrom(segs, i, cur, ctl) ==
  IF i > Len(segs) THEN <<>>
  ELSE <<unarcSegment(segs[i], cur.x, cur.y, ctl)>>
       \o unarcFrom(segs, i + 1, cursorAfter(segs[i], cur), ctl)

unarc(segs, ctl) == unarcFrom(segs, 1, origin, ctl)

\* svgpath unshort: T becomes Q and S becomes C, the implicit control point
\* being the reflection of the previous (already expanded) segment's last
\* control point about the current point, or the current point itself
unshortSegment(s, prev, x, y) ==
  CASE s.k = "T" ->
         LET px == IF prev.k = "Q" THEN prev.a[1] - x ELSE 0
             py == IF prev.k = "Q" THEN prev.a[2] - y ELSE 0
         IN Seg("Q", <<x - px, y - py, s.a[1], s.a[2]>>)
    [] s.k = "S" ->
         LET px == IF prev.k = "C" THEN prev.a[3] - x ELSE 0
             py == IF prev.k = "C" THEN prev.a[4] - y ELSE 0
         IN Seg("C", <<x - px, y - py, s.a[1], s.a[2], s.a[3], s.a[4]>>)
    [] OTHER -> s

RECURSIVE unshortFrom(_, _, _, _)
\* done: the segments already expanded, in order
unshortFrom(segs, i, cur, done) ==
  IF i > Len(segs) THEN done
  ELSE LET s == IF i = 1 THEN segs[i]
                ELSE unshortSegment(segs[i], done[i - 1], cur.x, cur.y)
       IN unshortFrom(segs, i + 1, cursorAfter(s, cur), Append(done, s))

unshort(segs) == unshortFrom(segs, 1, origin, <<>>)

\* svgpath(pathString).abs().unarc().unshort()
decompose(toks, ctl) == unshort(unarc(abs(pathParse(toks)), ctl))

---------------------------------------------------------------------------
\* Bounding box (part_000)

Min(a, b) == IF a < b THEN a ELSE b
Max(a, b) == IF a > b THEN a ELSE b

\* calculateBounds, lines 11-17: the sentinels and the cursor
boundsInit ==
  [minX |-> Infinity, minY |-> Infinity, maxX |-> -Infinity, maxY |-> -Infinity,
   currentX |-> 0, currentY |-> 0]

foldX(st, x) == [st EXCEPT !.minX = Min(@, x), !.maxX = Max(@, x)]
foldY(st, y) == [st EXCEPT !.minY = Min(@, y), !.maxY = Max(@, y)]

\* lines 46-54: case 'C'
stepCubicCursorSlip(st, s) ==
  [foldY(foldY(foldY(foldX(foldX(foldX(st, s.a[1]), s.a[3]), s.a[5]),
                     s.a[2]), s.a[4]), s.a[6])
     EXCEPT !.currentX = s.a[3], !.currentY = s.a[4]]

stepCubicControlsDropped(st, s) ==
  [foldY(foldX(st, s.a[5]), s.a[6])
     EXCEPT !.currentX = s.a[5], !.currentY = s.a[6]]

stepCubic(st, s) ==
  [foldY(foldY(foldY(foldX(foldX(foldX(st, s.a[1]), s.a[3]), s.a[5]),
                     s.a[2]), s.a[4]), s.a[6])
     EXCEPT !.currentX = s.a[5], !.currentY = s.a[6]]

\* the body of calculateBounds' forEach: one segment
boundsStep(st, s) ==
  CASE s.k \in {"M", "L"} ->
         foldY(foldX([st EXCEPT !.currentX = s.a[1], !.currentY = s.a[2]],
                     s.a[1]), s.a[2])
    [] s.k = "H" -> foldX([st EXCEPT !.currentX = s.a[1]], s.a[1])
    [] s.k = "V" -> foldY([st EXCEPT !.currentY = s.a[1]], s.a[1])
    [] s.k = "C" -> stepCubic(st, s)
    [] s.k \in {"S", "Q"} ->
         [foldY(foldY(foldX(foldX(st, s.a[1]), s.a[3]), s.a[2]), s.a[4])
            EXCEPT !.currentX = s.a[3], !.currentY = s.a[4]]
    [] s.k = "T" ->
         [foldY(foldX(st, s.a[1]), s.a[2])
            EXCEPT !.currentX = s.a[1], !.currentY = s.a[2]]
    [] s.k = "A" ->
         foldY(foldX([st EXCEPT !.currentX = s.a[6], !.currentY = s.a[7]],
                     s.a[6]), s.a[7])
    [] OTHER -> st

RECURSIVE boundsFold(_, _, _)
boundsFold(segs, i, st) ==
  IF i > Len(segs) THEN st
  ELSE boundsFold(segs, i + 1, boundsStep(st, segs[i]))

calculateBounds(segs) ==
  LET st == boundsFold(segs, 1, boundsInit)
  IN [minX |-> st.minX, minY |-> st.minY, maxX |-> st.maxX, maxY |-> st.maxY]

---------------------------------------------------------------------------
\* Fixed-point arithmetic

RECURSIVE fraction(_, _, _)
\* the first n decimals of r / den (0 <= r < den), and what remains
fraction(r, den, n) ==
  IF n = 0 THEN <<0, r>>
  ELSE LET rest == fraction((r * 10) % den, den, n - 1)
       IN <<((r * 10) \div den) * 10 ^ (n - 1) + rest[1], rest[2]>>

\* (num / den).toFixed(6), num >= 0 and den > 0, in 10^-6 units: the decimal
\* expansion cut after 6 digits and rounded half up
quotientFixed(num, den) ==
  LET f == fraction(num % den, den, Digits)
  IN (num \div den) * Unit + f[1] + (IF 2 * f[2] >= den THEN 1 ELSE 0)

\* toFixed rounds the magnitude and keeps the sign
toFixed(num, den) ==
  IF num < 0 THEN -quotientFixed(-num, den) ELSE quotientFixed(num, den)

---------------------------------------------------------------------------
\* svgpath translate / scale / round on the decomposed (absolute, arc-free)
\* segments: x and y parameters alternate, H carries an x and V a y; with a
\* matrix that has no rotation H and V keep their kind

\* the matrix of translate(tx, ty).scale(1 / wx, 1 / wy).translate(ox, oy)
matrix(tx, ty, wx, wy, ox, oy) ==
  [tx |-> tx, ty |-> ty, wx |-> wx, wy |-> wy, ox |-> ox, oy |-> oy]

\* the matrix applied to an x or a y, then round(6)
applyX(m, x) == toFixed(x + m.tx, m.wx) + m.ox
applyY(m, y) == toFixed(y + m.ty, m.wy) + m.oy

mapSegment(s, m) ==
  Seg(s.k,
      CASE s.k = "H" -> <<applyX(m, s.a[1])>>
        [] s.k = "V" -> <<applyY(m, s.a[1])>>
        [] OTHER -> [i \in 1 .. Len(s.a) |->
                       IF i % 2 = 1 THEN applyX(m, s.a[i]) ELSE applyY(m, s.a[i])])

mapPath(segs, m) == [i \in 1 .. Len(segs) |-> mapSegment(segs[i], m)]

\* normalizePathTo01, line 137
singlePoint == <<Cmd("M"), Num(Half), Num(Half)>>

\* lines 140-147: translate(-minX, -minY).scale(1, 1/height).translate(0.5, 0).round(6)
zeroWidthCase(segs, b) ==
  toString(mapPath(segs, matrix(-b.minX, -b.minY, Unit, b.maxY - b.minY, Half, 0)))

\* lines 149-156: translate(-minX, -minY).scale(1/width, 1).translate(0, 0.5).round(6)
zeroHeightCase(segs, b) ==
  toString(mapPath(segs, matrix(-b.minX, -b.minY, b.maxX - b.minX, Unit, 0, Half)))

\* lines 158-163: translate(-minX, -minY).scale(1/width, 1/height).round(6)
normalCaseSignSlip(segs, b) ==
  toString(mapPath(segs, matrix(b.minX, b.minY, b.maxX - b.minX, b.maxY - b.minY, 0, 0)))

normalCase(segs, b) ==
  toString(mapPath(segs, matrix(-b.minX, -b.minY, b.maxX - b.minX, b.maxY - b.minY, 0, 0)))

\* lines 135-163: the four cases on width and height
normalizeCasesOrSlip(segs, b) ==
  LET width == b.maxX - b.minX
      height == b.maxY - b.minY
  IN IF width = 0 \/ height = 0 THEN singlePoint
     ELSE normalCase(segs, b)

normalizeCases(segs, b) ==
  LET width == b.maxX - b.minX
      height == b.maxY - b.minY
  IN IF width = 0 /\ height = 0 THEN singlePoint
     ELSE IF width = 0 THEN zeroWidthCase(segs, b)
     ELSE IF height = 0 THEN zeroHeightCase(segs, b)
     ELSE normalCase(segs, b)

\* normalizePathTo01(pathString); ctl: see unarcSegment
normalizePathTo01(toks, ctl) ==
  IF toks = <<>> THEN toks
  ELSE LET segs == decompose(toks, ctl)
       IN IF segs = <<>> THEN toks
          ELSE normalizeCases(segs, calculateBounds(segs))

---------------------------------------------------------------------------
\* App.vue: normalizePathCoordinates, the regex-based normalizer

isNumber(t) == t.c = "#"

\* lines 149-158: the numbers the regex finds, in order
numbersOf(toks) == SelectSeq(toks, isNumber)

RECURSIVE rebuild(_, _, _, _)
\* lines 179-199: every number replaced, the rest of the text kept; n numbers
\* precede token i
rebuild(toks, i, n, b) ==
  IF i > Len(toks) THEN <<>>
  ELSE IF isNumber(toks[i])
       THEN <<Num(IF n % 2 = 0
                  THEN toFixed(toks[i].v - b.minX, b.maxX - b.minX)
                  ELSE toFixed(toks[i].v - b.minY, b.maxY - b.minY))>>
            \o rebuild(toks, i + 1, n + 1, b)
       ELSE <<toks[i]>> \o rebuild(toks, i + 1, n, b)

setMin(S) == CHOOSE m \in S : \A e \in S : m <= e
setMax(S) == CHOOSE m \in S : \A e \in S : m >= e

normalizePathCoordinates(toks) ==
  LET numbers == numbersOf(toks)
      xCoords == {numbers[i].v : i \in {j \in 1 .. Len(numbers) : j % 2 = 1}}
      yCoords == {numbers[i].v : i \in {j \in 1 .. Len(numbers) : j % 2 = 0}}
  IN IF Len(numbers) = 0 THEN toks
     \* one number: width is 0
     ELSE IF Len(numbers) = 1 THEN toks
     ELSE LET b == [minX |-> setMin(xCoords), maxX |-> setMax(xCoords),
                    minY |-> setMin(yCoords), maxY |-> setMax(yCoords)]
          IN IF b.maxX - b.minX = 0 \/ b.maxY - b.minY = 0 THEN toks
             ELSE rebuild(toks, 1, 0, b)

---------------------------------------------------------------------------
\* Inputs: path data of at most MaxLen segments on the grid Coord x Coord

Pt(x, y) == <<U(x), U(y)>>
CtrlPts == {Pt(0, MaxCoord), Pt(MaxCoord, 0)}
ArcCtl == CtrlPts \X CtrlPts

FirstSegs ==
  {Seg("M", Pt(c, c)) : c \in Coord}
    \cup {Seg("m", Pt(1, 0)), Seg("L", Pt(1, 1))}

NextSegs ==
  {Seg("L", Pt(x, y)) : x \in Coord, y \in {0, MaxCoord}}
    \cup {Seg("L", Pt(1, 1))}
    \cup {Seg("H", <<U(x)>>) : x \in {0, MaxCoord}}
    \cup {Seg("V", <<U(y)>>) : y \in {1, MaxCoord}}
    \cup {Seg("Z", <<>>), Seg("z", <<>>), Seg("M", Pt(1, 0))}
    \cup {Seg("l", <<U(1), -U(1)>>), Seg("h", <<-U(1)>>), Seg("v", <<U(1)>>)}
    \cup {Seg("C", Pt(0, MaxCoord) \o c2 \o Pt(1, 1)) : c2 \in CtrlPts}
    \cup {Seg("Q", Pt(MaxCoord, 0) \o Pt(1, 1))}
    \cup {Seg("S", Pt(MaxCoord, 0) \o Pt(1, 1))}
    \cup {Seg("T", Pt(0, 0))}
    \cup {Seg("A", <<r, U(1), 0, 0, 1, U(MaxCoord), U(1)>>) : r \in {0, U(1)}}

\* the input paths: the empty text, or a first segment and up to MaxLen - 1 more
IsPathInput(p) ==
  \/ p = <<>>
  \/ /\ Len(p) \in 1 .. MaxLen
     /\ p[1] \in FirstSegs
     /\ \A i \in 2 .. Len(p) : p[i] \in NextSegs

hasArc(segs) == \E i \in 1 .. Len(segs) : segs[i].k \in {"A", "a"}

---------------------------------------------------------------------------
\* Spec: one path string through a normalizer, and the result through it again

Init ==
  /\ pc = "idle"
  /\ pathString = <<>>
  /\ segments = <<>>
  /\ normalized = <<>>
  /\ walk = [i |-> 0, st |-> boundsInit]
  /\ doc = [svg |-> FALSE, clipPath |-> FALSE, shapes |-> <<>>]
  /\ clip = [thrown |-> "", paths |-> <<>>]
  /\ fileInput = "null"
  /\ normalizedSVG = <<>>
  /\ readers = <<>>
  /\ lastLoad = "none"
  /\ downloaded = [name |-> "", content |-> <<>>]

others == <<walk, doc, clip, fileInput, normalizedSVG, readers, lastLoad, downloaded>>

noCtl == <<Pt(0, 0), Pt(0, 0)>>

\* part_000: normalizePathTo01(pathString) on an input path
Normalize ==
  /\ pc = "idle"
  /\ \E n \in 0 .. MaxLen : \E q \in [1 .. n -> FirstSegs \cup NextSegs] :
       /\ IsPathInput(q)
       /\ \E ctl \in IF hasArc(q) THEN ArcCtl ELSE {noCtl} :
            /\ pathString' = pathText(q, 1)
            /\ segments' = decompose(pathText(q, 1), ctl)
            /\ normalized' = normalizePathTo01(pathText(q, 1), ctl)
  /\ pc' = "To01"
  /\ UNCHANGED others

\* part_000: normalizePathTo01 on its own output (which has no arc)
Renormalize ==
  /\ pc = "To01"
  /\ pathString' = normalized
  /\ segments' = decompose(normalized, noCtl)
  /\ normalized' = normalizePathTo01(normalized, noCtl)
  /\ pc' = "To01Again"
  /\ UNCHANGED others

\* App.vue: normalizePathCoordinates(pathString) on an input path
NormalizeCoordinates ==
  /\ pc = "idle"
  /\ \E n \in 0 .. MaxLen : \E q \in [1 .. n -> FirstSegs \cup NextSegs] :
       /\ IsPathInput(q)
       /\ pathString' = pathText(q, 1)
       /\ normalized' = normalizePathCoordinates(pathText(q, 1))
  /\ segments' = <<>>
  /\ pc' = "Coordinates"
  /\ UNCHANGED others

\* App.vue: normalizePathCoordinates on its own output
RenormalizeCoordinates ==
  /\ pc = "Coordinates"
  /\ pathString' = normalized
  /\ normalized' = normalizePathCoordinates(normalized)
  /\ segments' = <<>>
  /\ pc' = "CoordinatesAgain"
  /\ UNCHANGED others

Next == Normalize \/ Renormalize \/ NormalizeCoordinates \/ RenormalizeCoordinates

Spec == Init /\ [][Next]_vars

---------------------------------------------------------------------------
\* Properties of the normalizers (checked under Spec)

kindsOf(segs) == [i \in 1 .. Len(segs) |-> segs[i].k]

\* the x (y) coordinates a path's segments carry, control points included
xsOf(segs) ==
  UNION {IF segs[i].k = "V" THEN {}
         ELSE IF segs[i].k = "H" THEN {segs[i].a[1]}
         ELSE {segs[i].a[j] : j \in {n \in 1 .. Len(segs[i].a) : n % 2 = 1}}
           : i \in 1 .. Len(segs)}
ysOf(segs) ==
  UNION {IF segs[i].k = "H" THEN {}
         ELSE IF segs[i].k = "V" THEN {segs[i].a[1]}
         ELSE {segs[i].a[j] : j \in {n \in 1 .. Len(segs[i].a) : n % 2 = 0}}
           : i \in 1 .. Len(segs)}

widthOf(b) == b.maxX - b.minX
heightOf(b) == b.maxY - b.minY

spansUnit(S) == (\A v \in S : 0 <= v /\ v <= Unit) /\ 0 \in S /\ Unit \in S

\* a call of normalizePathTo01 on text that svgpath parses
To01Done == pc \in {"To01", "To01Again"} /\ segments # <<>>
\* a call of normalizePathCoordinates on text that holds a path
CoordinatesDone ==
  pc \in {"Coordinates", "CoordinatesAgain"} /\ pathParse(pathString) # <<>>
\* the box of the text given to normalizePathCoordinates
textBox == calculateBounds(abs(pathParse(pathString)))

\* a run of consecutive Z counted once
RECURSIVE squeezeZ(_)
squeezeZ(ks) ==
  IF Len(ks) <= 1 THEN ks
  ELSE IF ks[1] = "Z" /\ ks[2] = "Z" THEN squeezeZ(Tail(ks))
  ELSE <<ks[1]>> \o squeezeZ(Tail(ks))

\* C1: normalizePathTo01, normal case (width > 0 and height > 0 of the computed
\* box): every coordinate of the output, control points included, lies in
\* [0, 1], and on each axis the least is 0 and the greatest is 1.
C1_NormalCaseUnitSquare ==
  (To01Done /\ widthOf(calculateBounds(segments)) > 0
            /\ heightOf(calculateBounds(segments)) > 0)
    => /\ spansUnit(xsOf(pathParse(normalized)))
       /\ spansUnit(ysOf(pathParse(normalized)))

\* C1 witness: a normal-case path with a curve was normalized, and a coordinate
\* was rounded to 6 digits (1/3)
C1_Witness ==
  /\ pc = "To01" /\ Len(segments) = 3
  /\ widthOf(calculateBounds(segments)) > 0
  /\ heightOf(calculateBounds(segments)) > 0
  /\ \E i \in 1 .. 3 : segments[i].k \in {"C", "Q"}
  /\ 333333 \in xsOf(pathParse(normalized)) \cup ysOf(pathParse(normalized))

\* C2, as claimed: whenever the box of the input is a single point, the
\* normalizer returns exactly M0.5,0.5.
C2_SinglePointClaim ==
  /\ (To01Done /\ widthOf(calculateBounds(segments)) = 0
               /\ heightOf(calculateBounds(segments)) = 0)
       => normalized = singlePoint
  /\ (CoordinatesDone /\ widthOf(textBox) = 0 /\ heightOf(textBox) = 0)
       => normalized = singlePoint

\* C2 for normalizePathTo01 alone
C2_SinglePointTo01 ==
  (To01Done /\ widthOf(calculateBounds(segments)) = 0
            /\ heightOf(calculateBounds(segments)) = 0)
    => normalized = singlePoint

zeroWidthOutput(out) == xsOf(out) = {Half} /\ spansUnit(ysOf(out))
zeroHeightOutput(out) == ysOf(out) = {Half} /\ spansUnit(xsOf(out))

\* C3, as claimed: width = 0 and height > 0 gives x = 0.5 everywhere and y
\* spanning 0 to 1; height = 0 and width > 0 gives y = 0.5 everywhere and x
\* spanning 0 to 1.
C3_SingleAxisClaim ==
  /\ To01Done =>
       /\ (widthOf(calculateBounds(segments)) = 0
             /\ heightOf(calculateBounds(segments)) > 0)
            => zeroWidthOutput(pathParse(normalized))
       /\ (heightOf(calculateBounds(segments)) = 0
             /\ widthOf(calculateBounds(segments)) > 0)
            => zeroHeightOutput(pathParse(normalized))
  /\ CoordinatesDone =>
       /\ (widthOf(textBox) = 0 /\ heightOf(textBox) > 0)
            => zeroWidthOutput(pathParse(normalized))
       /\ (heightOf(textBox) = 0 /\ widthOf(textBox) > 0)
            => zeroHeightOutput(pathParse(normalized))

\* C3 for normalizePathTo01 alone
C3_SingleAxisTo01 ==
  To01Done =>
    /\ (widthOf(calculateBounds(segments)) = 0
          /\ heightOf(calculateBounds(segments)) > 0)
         => zeroWidthOutput(pathParse(normalized))
    /\ (heightOf(calculateBounds(segments)) = 0
          /\ widthOf(calculateBounds(segments)) > 0)
         => zeroHeightOutput(pathParse(normalized))

---------------------------------------------------------------------------
\* SpecBounds: calculateBounds' forEach, one segment at a time, on the
\* segments normalizePathTo01 passes to it

\* normalizePathTo01 line 130: calculateBounds(segments) is entered
EnterCalculateBounds ==
  /\ pc = "idle"
  /\ \E n \in 1 .. MaxLen : \E q \in [1 .. n -> FirstSegs \cup NextSegs] :
       /\ IsPathInput(q)
       /\ \E ctl \in IF hasArc(q) THEN ArcCtl ELSE {noCtl} :
            /\ decompose(pathText(q, 1), ctl) # <<>>
            /\ pathString' = pathText(q, 1)
            /\ segments' = decompose(pathText(q, 1), ctl)
  /\ walk' = [i |-> 0, st |-> boundsInit]
  /\ pc' = "forEach"
  /\ UNCHANGED <<normalized, doc, clip, fileInput, normalizedSVG, readers,
                 lastLoad, downloaded>>

\* lines 19-101: the callback on the next segment
ForEachSegment ==
  /\ pc = "forEach"
  /\ walk.i < Len(segments)
  /\ walk' = [i |-> walk.i + 1, st |-> boundsStep(walk.st, segments[walk.i + 1])]
  /\ UNCHANGED <<pc, pathString, segments, normalized, doc, clip, fileInput,
                 normalizedSVG, readers, lastLoad, downloaded>>

\* line 103: return { minX, minY, maxX, maxY }
ReturnBounds ==
  /\ pc = "forEach"
  /\ walk.i = Len(segments)
  /\ pc' = "bounds"
  /\ UNCHANGED <<pathString, segments, normalized, walk, doc, clip, fileInput,
                 normalizedSVG, readers, lastLoad, downloaded>>

NextBounds == EnterCalculateBounds \/ ForEachSegment \/ ReturnBounds

SpecBounds == Init /\ [][NextBounds]_vars

RECURSIVE lastMoveTo(_, _)
\* the coordinate of the most recent MoveTo among segments 1 .. i
lastMoveTo(segs, i) ==
  IF i = 0 THEN <<0, 0>>
  ELSE IF segs[i].k = "M" THEN <<segs[i].a[1], segs[i].a[2]>>
  ELSE lastMoveTo(segs, i - 1)

RECURSIVE finalPoint(_, _, _)
\* the cursor after segment i: the segment's final coordinate pair, H and V
\* moving one axis; afterZ tells what a ClosePath leaves: "moveto" (the most
\* recent MoveTo's coordinate) or "same" (the cursor as it was)
finalPoint(segs, i, afterZ) ==
  IF i = 0 THEN <<0, 0>>
  ELSE LET s == segs[i]
           before == finalPoint(segs, i - 1, afterZ)
       IN CASE s.k = "H" -> <<s.a[1], before[2]>>
            [] s.k = "V" -> <<before[1], s.a[1]>>
            [] s.k \in {"Z", "z"} ->
                 IF afterZ = "moveto" THEN lastMoveTo(segs, i) ELSE before
            [] OTHER -> <<s.a[Len(s.a) - 1], s.a[Len(s.a)]>>

\* C9, as claimed: after each segment the cursor is the segment's final
\* coordinate pair, and after a ClosePath the most recent MoveTo's coordinate.
C9_CursorClaim ==
  (pc = "forEach" /\ walk.i >= 1)
    => <<walk.st.currentX, walk.st.currentY>>
         = finalPoint(segments, walk.i, "moveto")

\* C9, amended: after each segment the cursor is the segment's final
\* coordinate pair (H and V move one axis), and a ClosePath leaves the cursor
\* where it was.
C9_CursorAmended ==
  (pc = "forEach" /\ walk.i >= 1)
    => <<walk.st.currentX, walk.st.currentY>>
         = finalPoint(segments, walk.i, "same")

\* C9 witness: a ClosePath was processed after the cursor had left the
\* MoveTo's point, and the cursor stayed
C9_Witness ==
  /\ pc = "forEach" /\ walk.i = 3
  /\ kindsOf(segments) = <<"M", "C", "Z">>
  /\ <<walk.st.currentX, walk.st.currentY>> = <<segments[2].a[5], segments[2].a[6]>>
  /\ <<walk.st.currentX, walk.st.currentY>> # <<segments[1].a[1], segments[1].a[2]>>

---------------------------------------------------------------------------
\* App.vue: shapeToPath.  An element is its tag, its numeric attributes (a
\* record of those present), its points list and its path data.

attribute(e, name) == IF name \in DOMAIN e.num THEN e.num[name] ELSE 0

Element(tag, num) ==
  [tag |-> tag, num |-> num, points |-> [present |-> FALSE, list |-> <<>>],
   d |-> [present |-> FALSE, toks |-> <<>>]]
PointsElement(tag, present, list) ==
  [tag |-> tag, num |-> <<>>, points |-> [present |-> present, list |-> list],
   d |-> [present |-> FALSE, toks |-> <<>>]]
PathElement(present, toks) ==
  [tag |-> "path", num |-> <<>>, points |-> [present |-> FALSE, list |-> <<>>],
   d |-> [present |-> present, toks |-> toks]]

\* line 103: the rect template
rectPathHeightSlip(x, y, width, height) ==
  <<Cmd("M"), Num(x), Num(y), Cmd("L"), Num(x + width), Num(y),
    Cmd("L"), Num(x + width), Num(y + width), Cmd("L"), Num(x), Num(y + height),
    Cmd("Z")>>

rectPath(x, y, width, height) ==
  <<Cmd("M"), Num(x), Num(y), Cmd("L"), Num(x + width), Num(y),
    Cmd("L"), Num(x + width), Num(y + height), Cmd("L"), Num(x), Num(y + height),
    Cmd("Z")>>

\* lines 140-142; circleToPath (lines 133-135) is the same with rx = ry = r
ellipseToPath(cx, cy, rx, ry) ==
  <<Cmd("M"), Num(cx - rx), Num(cy),
    Cmd("A"), Num(rx), Num(ry), Num(0), Num(U(1)), Num(0), Num(cx + rx), Num(cy),
    Cmd("A"), Num(rx), Num(ry), Num(0), Num(U(1)), Num(0), Num(cx - rx), Num(cy),
    Cmd("Z")>>

circleToPath(cx, cy, r) == ellipseToPath(cx, cy, r, r)

\* lines 117-120: points[i] as written into the template; past the end of
\* the list it is the text "undefined"
pointText(list, i) == IF i <= Len(list) THEN Num(list[i]) ELSE Cmd("undefined")

RECURSIVE pointsPath(_, _)
\* lines 118-120: the loop from the second pair on (i counts from 1 here)
pointsPath(list, i) ==
  IF i > Len(list) THEN <<>>
  ELSE <<Cmd("L"), pointText(list, i), pointText(list, i + 1)>>
       \o pointsPath(list, i + 2)

ShapeTags == {"path", "circle", "rect", "ellipse", "polygon", "polyline"}

\* shapeToPath(element): "ok" with the path data, "null", or the TypeError
\* of null.trim() when a polygon or polyline has no points attribute
shapeToPath(e) ==
  CASE e.tag = "path" ->
         IF e.d.present THEN [kind |-> "ok", d |-> e.d.toks]
         ELSE [kind |-> "null", d |-> <<>>]
    [] e.tag = "circle" ->
         [kind |-> "ok",
          d |-> circleToPath(attribute(e, "cx"), attribute(e, "cy"), attribute(e, "r"))]
    [] e.tag = "rect" ->
         [kind |-> "ok",
          d |-> rectPath(attribute(e, "x"), attribute(e, "y"),
                         attribute(e, "width"), attribute(e, "height"))]
    [] e.tag = "ellipse" ->
         [kind |-> "ok",
          d |-> ellipseToPath(attribute(e, "cx"), attribute(e, "cy"),
                              attribute(e, "rx"), attribute(e, "ry"))]
    [] e.tag \in {"polygon", "polyline"} ->
         IF ~e.points.present THEN [kind |-> "TypeError", d |-> <<>>]
         ELSE [kind |-> "ok",
               d |-> <<Cmd("M"), pointText(e.points.list, 1), pointText(e.points.list, 2)>>
                     \o pointsPath(e.points.list, 3)
                     \o (IF e.tag = "polygon" THEN <<Cmd("Z")>> ELSE <<>>)]
    [] OTHER -> [kind |-> "null", d |-> <<>>]

---------------------------------------------------------------------------
\* convertToNormalizedClipPath.  A document is: whether it has an svg root,
\* whether the svg holds a clipPath already, and the shape elements (the
\* children of that clipPath when there is one).  The serialized output is
\* identified with the d attributes of the clipPath's paths.

\* the d attribute after setAttribute('d', null)
nullText == <<Cmd("null")>>

pathsOf(shapes) == SelectSeq(shapes, LAMBDA e : e.tag = "path")
selected(shapes) == SelectSeq(shapes, LAMBDA e : e.tag \in ShapeTags)

\* App.vue lines 50-58: the shapes.forEach; a TypeError leaves the loop
RECURSIVE shapesForEach(_, _)
shapesForEach(shapes, i) ==
  IF i > Len(shapes) THEN [thrown |-> "", paths |-> <<>>]
  ELSE LET r == shapeToPath(shapes[i])
       IN IF r.kind = "TypeError" THEN [thrown |-> "TypeError", paths |-> <<>>]
          ELSE LET rest == shapesForEach(shapes, i + 1)
               IN IF rest.thrown # "" THEN rest
                  ELSE IF r.kind = "ok" /\ r.d # <<>>
                       THEN [rest EXCEPT !.paths = <<r.d>> \o @]
                       ELSE rest

\* App.vue lines 19-79
convertToNormalizedClipPath_App(document) ==
  IF ~document.svg THEN [thrown |-> "Invalid SVG content", paths |-> <<>>]
  ELSE IF ~document.clipPath
  THEN LET made == shapesForEach(selected(document.shapes), 1)
       IN IF made.thrown # "" THEN made
          ELSE [thrown |-> "",
                paths |-> [i \in 1 .. Len(made.paths) |->
                             normalizePathCoordinates(made.paths[i])]]
  ELSE LET paths == pathsOf(document.shapes)
       IN [thrown |-> "",
           paths |-> [i \in 1 .. Len(paths) |->
                        IF paths[i].d.present
                        THEN normalizePathCoordinates(paths[i].d.toks)
                        ELSE nullText]]

\* part_000 lines 189-259 (the path data of the model's documents has no arc)
convertToNormalizedClipPath(document) ==
  IF ~document.svg THEN [thrown |-> "Invalid SVG content", paths |-> <<>>]
  ELSE LET paths == pathsOf(document.shapes)
       IN IF ~document.clipPath /\ Len(paths) = 0
          THEN [thrown |-> "No path elements found in SVG", paths |-> <<>>]
          ELSE IF ~document.clipPath
          THEN LET moved == SelectSeq(paths, LAMBDA e : e.d.present /\ e.d.toks # <<>>)
               IN [thrown |-> "",
                   paths |-> [i \in 1 .. Len(moved) |->
                                normalizePathTo01(moved[i].d.toks, noCtl)]]
          ELSE [thrown |-> "",
                paths |-> [i \in 1 .. Len(paths) |->
                             IF paths[i].d.present
                             THEN normalizePathTo01(paths[i].d.toks, noCtl)
                             ELSE nullText]]

---------------------------------------------------------------------------
\* SpecShapes: App.vue's shape route

RectAttrs == {"x", "y", "width", "height"}

\* rect elements: each attribute missing or a number; width and height may
\* be negative
RectInputs ==
  UNION {{Element("rect", [a \in S |-> U(f[a])]) :
            f \in {g \in [S -> -1 .. MaxCoord] :
                     \A a \in S \cap {"x", "y"} : g[a] >= 0}}
           : S \in SUBSET RectAttrs}

pathA == pathText(<<Seg("M", Pt(0, 0)), Seg("L", Pt(2, 0)), Seg("L", Pt(2, 2))>>, 1)
pathB == pathText(<<Seg("M", Pt(0, 0)), Seg("L", Pt(1, 2)), Seg("H", <<U(2)>>)>>, 1)

OtherInputs ==
  {Element("circle", [cx |-> U(1), cy |-> U(1), r |-> U(r)]) : r \in {0, 1}}
    \cup {Element("ellipse", [cx |-> U(1), cy |-> U(1), rx |-> U(1), ry |-> U(2)]),
          Element("text", [x |-> U(1)]),
          PointsElement("polygon", TRUE, Pt(0, 0) \o Pt(2, 0) \o Pt(2, 2)),
          PointsElement("polyline", TRUE, Pt(0, 0) \o <<U(1)>>),
          PointsElement("polygon", FALSE, <<>>),
          PathElement(TRUE, pathA),
          PathElement(TRUE, <<Cmd("L"), Num(U(1)), Num(U(1))>>),
          PathElement(FALSE, <<>>)}

\* App.vue line 51 with lines 68 and, for the box, part_000's calculateBounds:
\* one element through shapeToPath, and its path data bounded and normalized
ShapeToPath ==
  /\ pc = "idle"
  /\ \E e \in RectInputs \cup OtherInputs :
       /\ doc' = [svg |-> TRUE, clipPath |-> FALSE, shapes |-> <<e>>]
       /\ LET r == shapeToPath(e)
          IN IF r.kind = "ok"
             THEN \E ctl \in IF e.tag \in {"circle", "ellipse"} THEN ArcCtl ELSE {noCtl} :
                    /\ pc' = "shape"
                    /\ pathString' = r.d
                    /\ segments' = decompose(r.d, ctl)
                    /\ walk' = [i |-> Len(decompose(r.d, ctl)),
                                st |-> boundsFold(decompose(r.d, ctl), 1, boundsInit)]
                    /\ normalized' = normalizePathCoordinates(r.d)
             ELSE /\ pc' = r.kind
                  /\ UNCHANGED <<pathString, segments, walk, normalized>>
  /\ UNCHANGED <<clip, fileInput, normalizedSVG, readers, lastLoad, downloaded>>

DocElements ==
  {Element("rect", [width |-> U(2), height |-> U(1)]),
   Element("circle", [cx |-> U(1), cy |-> U(1), r |-> U(1)]),
   Element("text", [x |-> U(1)]),
   PointsElement("polygon", TRUE, Pt(0, 0) \o Pt(2, 0) \o Pt(2, 2)),
   PointsElement("polyline", TRUE, Pt(0, 0) \o <<U(1)>>),
   PointsElement("polygon", FALSE, <<>>),
   PathElement(TRUE, pathA),
   PathElement(TRUE, <<Cmd("L"), Num(U(1)), Num(U(1))>>),
   PathElement(FALSE, <<>>)}

\* App.vue: convertToNormalizedClipPath(svgString) on a document
ConvertDocument ==
  /\ pc = "idle"
  /\ \E n \in 0 .. MaxShapes : \E shapes \in [1 .. n -> DocElements] :
       \E svg \in BOOLEAN : \E clipPath \in {c \in BOOLEAN : svg \/ ~c} :
         /\ doc' = [svg |-> svg, clipPath |-> clipPath, shapes |-> shapes]
         /\ clip' = convertToNormalizedClipPath_App(
                      [svg |-> svg, clipPath |-> clipPath, shapes |-> shapes])
  /\ pc' = "converted"
  /\ UNCHANGED <<pathString, segments, normalized, walk, fileInput,
                 normalizedSVG, readers, lastLoad, downloaded>>

NextShapes == ShapeToPath \/ ConvertDocument

SpecShapes == Init /\ [][NextShapes]_vars

theRect == doc.shapes[1]
rectBox ==
  [minX |-> attribute(theRect, "x"), minY |-> attribute(theRect, "y"),
   maxX |-> attribute(theRect, "x") + attribute(theRect, "width"),
   maxY |-> attribute(theRect, "y") + attribute(theRect, "height")]
computedBox ==
  [minX |-> walk.st.minX, minY |-> walk.st.minY,
   maxX |-> walk.st.maxX, maxY |-> walk.st.maxY]
rectKinds == <<"M", "L", "L", "L", "Z">>
unitSquare ==
  <<Seg("M", <<0, 0>>), Seg("L", <<Unit, 0>>), Seg("L", <<Unit, Unit>>),
    Seg("L", <<0, Unit>>), Seg("Z", <<>>)>>

\* the quadrilateral M(x,y) L(x+w,y) L(x+w,y+h) L(x,y+h) Z
isQuadrilateral(segs, b) ==
  /\ kindsOf(segs) = rectKinds
  /\ segs[1].a = <<b.minX, b.minY>> /\ segs[2].a = <<b.maxX, b.minY>>
  /\ segs[3].a = <<b.maxX, b.maxY>> /\ segs[4].a = <<b.minX, b.maxY>>

rectDone == pc = "shape" /\ theRect.tag = "rect"

\* C4, as claimed: every rect becomes the closed quadrilateral, whose computed
\* box is exactly {x, y, x+w, y+h}, and a rect of positive size normalizes to
\* the unit square.
C4_RectClaim ==
  rectDone =>
    /\ isQuadrilateral(pathParse(pathString), rectBox)
    /\ computedBox = rectBox
    /\ (attribute(theRect, "width") > 0 /\ attribute(theRect, "height") > 0)
         => pathParse(normalized) = unitSquare

\* C4, amended: every rect becomes the closed quadrilateral; when width >= 0
\* and height >= 0 its computed box is exactly {x, y, x+w, y+h}; a rect of
\* positive size normalizes to the unit square.
C4_RectAmended ==
  rectDone =>
    /\ isQuadrilateral(pathParse(pathString), rectBox)
    /\ (attribute(theRect, "width") >= 0 /\ attribute(theRect, "height") >= 0)
         => computedBox = rectBox
    /\ (attribute(theRect, "width") > 0 /\ attribute(theRect, "height") > 0)
         => pathParse(normalized) = unitSquare

\* C4 witness: a rect away from the origin, of positive size and with its y
\* attribute missing, was converted, bounded and normalized
C4_Witness ==
  /\ rectDone
  /\ DOMAIN theRect.num = {"x", "width", "height"}
  /\ attribute(theRect, "x") = U(1)
  /\ attribute(theRect, "width") = U(2) /\ attribute(theRect, "height") = U(1)
  /\ computedBox = [minX |-> U(1), minY |-> 0, maxX |-> U(3), maxY |-> U(1)]
  /\ pathParse(normalized) = unitSquare

\* a shape that shapeToPath turns into path data
convertible(e) == shapeToPath(e).kind = "ok" /\ shapeToPath(e).d # <<>>

\* C7, as claimed: a malformed or unsupported shape fails or is skipped on its
\* own; the conversion is not aborted and every other shape is converted,
\* normalized and present in the output clipPath.
C7_IsolationClaim ==
  (pc = "converted" /\ doc.svg /\ ~doc.clipPath) =>
    /\ clip.thrown = ""
    /\ \A i \in 1 .. Len(doc.shapes) :
         convertible(doc.shapes[i]) =>
           \E j \in 1 .. Len(clip.paths) :
             clip.paths[j] = normalizePathCoordinates(shapeToPath(doc.shapes[i]).d)

\* C7 holds of the documents in which every polygon and polyline has a
\* points attribute
C7_IsolationWithPoints ==
  (pc = "converted" /\ doc.svg /\ ~doc.clipPath
     /\ \A i \in 1 .. Len(doc.shapes) : shapeToPath(doc.shapes[i]).kind # "TypeError") =>
    /\ clip.thrown = ""
    /\ \A i \in 1 .. Len(doc.shapes) :
         convertible(doc.shapes[i]) =>
           \E j \in 1 .. Len(clip.paths) :
             clip.paths[j] = normalizePathCoordinates(shapeToPath(doc.shapes[i]).d)

---------------------------------------------------------------------------
\* SpecUI (part_000) and SpecUI_App (App.vue): file selections, the
\* asynchronous FileReader completions, and downloads

svgType == "image/svg+xml"

document(shapes) == [svg |-> TRUE, clipPath |-> FALSE, shapes |-> shapes]

Files ==
  {[name |-> "a.svg", type |-> svgType, content |-> document(<<PathElement(TRUE, pathA)>>)],
   [name |-> "b.svg", type |-> svgType, content |-> document(<<PathElement(TRUE, pathB)>>)],
   [name |-> "broken.svg", type |-> svgType,
    content |-> [svg |-> FALSE, clipPath |-> FALSE, shapes |-> <<>>]],
   [name |-> "rect.svg", type |-> svgType,
    content |-> document(<<Element("rect", [width |-> U(2), height |-> U(1)])>>)],
   [name |-> "photo.png", type |-> "image/png",
    content |-> [svg |-> FALSE, clipPath |-> FALSE, shapes |-> <<>>]]}

fileNamed(n) == CHOOSE f \in Files : f.name = n

without(q, i) == [j \in 1 .. Len(q) - 1 |-> IF j < i THEN q[j] ELSE q[j + 1]]

\* part_000 lines 264-292, up to reader.readAsText(file); no file was chosen
\* (files[0] undefined): return
onFileChange ==
  \/ /\ \E f \in Files :
          IF f.type # svgType
          THEN /\ normalizedSVG' = <<>>
               /\ lastLoad' = "Please select a valid SVG file."
               /\ UNCHANGED <<fileInput, readers>>
          ELSE /\ Len(readers) < MaxPending
               /\ fileInput' = f.name
               /\ readers' = Append(readers, f.name)
               /\ UNCHANGED <<normalizedSVG, lastLoad>>
     /\ UNCHANGED <<pc, pathString, segments, normalized, walk, doc, clip, downloaded>>
  \/ UNCHANGED vars

\* part_000 lines 280-290: reader.onload of one of the pending readers
onload ==
  /\ \E i \in 1 .. Len(readers) :
       LET r == convertToNormalizedClipPath(fileNamed(readers[i]).content)
       IN /\ readers' = without(readers, i)
          /\ IF r.thrown = ""
             THEN normalizedSVG' = <<r.paths>> /\ lastLoad' = "loaded"
             ELSE normalizedSVG' = <<>> /\ lastLoad' = r.thrown
  /\ UNCHANGED <<pc, pathString, segments, normalized, walk, doc, clip,
                 fileInput, downloaded>>

\* a read that fails: the reader has no onerror handler and onload never runs
readError ==
  /\ \E i \in 1 .. Len(readers) : readers' = without(readers, i)
  /\ UNCHANGED <<pc, pathString, segments, normalized, walk, doc, clip,
                 fileInput, normalizedSVG, lastLoad, downloaded>>

\* part_000 lines 294-306; the download is named clipPath-<name>, or
\* clipPath.svg when fileInput is null
onDownloadFile ==
  /\ normalizedSVG # <<>>
  /\ downloaded' = [name |-> fileInput, content |-> normalizedSVG]
  /\ UNCHANGED <<pc, pathString, segments, normalized, walk, doc, clip,
                 fileInput, normalizedSVG, readers, lastLoad>>

NextUI == onFileChange \/ onload \/ readError \/ onDownloadFile

SpecUI == Init /\ [][NextUI]_vars

\* App.vue lines 207-228, up to reader.readAsText(file); without a file, or
\* with a file of another type, the else branch runs
onFileChange_App ==
  /\ \/ \E f \in Files :
          IF f.type = svgType
          THEN /\ Len(readers) < MaxPending
               /\ fileInput' = f.name
               /\ readers' = Append(readers, f.name)
               /\ UNCHANGED <<normalizedSVG, lastLoad>>
          ELSE /\ normalizedSVG' = <<>>
               /\ lastLoad' = "Please select a valid SVG file."
               /\ UNCHANGED <<fileInput, readers>>
     \/ /\ normalizedSVG' = <<>>
        /\ lastLoad' = "Please select a valid SVG file."
        /\ UNCHANGED <<fileInput, readers>>
  /\ UNCHANGED <<pc, pathString, segments, normalized, walk, doc, clip, downloaded>>

\* App.vue lines 213-222: reader.onload; the catch only logs the error
onload_App ==
  /\ \E i \in 1 .. Len(readers) :
       LET r == convertToNormalizedClipPath_App(fileNamed(readers[i]).content)
       IN /\ readers' = without(readers, i)
          /\ IF r.thrown = ""
             THEN normalizedSVG' = <<r.paths>> /\ lastLoad' = "loaded"
             ELSE normalizedSVG' = normalizedSVG /\ lastLoad' = r.thrown
  /\ UNCHANGED <<pc, pathString, segments, normalized, walk, doc, clip,
                 fileInput, downloaded>>

\* App.vue lines 230-242
onDownloadFile_App ==
  /\ normalizedSVG # <<>>
  /\ downloaded' = [name |-> fileInput, content |-> normalizedSVG]
  /\ UNCHANGED <<pc, pathString, segments, normalized, walk, doc, clip,
                 fileInput, normalizedSVG, readers, lastLoad>>

NextUI_App == onFileChange_App \/ onload_App \/ readError \/ onDownloadFile_App

SpecUI_App == Init /\ [][NextUI_App]_vars

\* the load that completed last failed: the document was invalid, or had no
\* convertible element
loadFailed == lastLoad \in {"Invalid SVG content", "No path elements found in SVG",
                            "TypeError"}

\* C8, as claimed: after a load that failed has completed, normalizedSVG is
\* empty: nothing can be downloaded.
C8_NoOutputAfterFailure == loadFailed => normalizedSVG = <<>>

\* what converting the file recorded in fileInput gives (part_000)
currentOutput == convertToNormalizedClipPath(fileNamed(fileInput).content)

\* C10, as claimed: whenever a download is possible, normalizedSVG was
\* produced from the file recorded in fileInput, whose name the download gets.
C10_DownloadConsistent ==
  normalizedSVG # <<>> =>
    /\ fileInput # "null"
    /\ currentOutput.thrown = ""
    /\ normalizedSVG = <<currentOutput.paths>>

\* C10 for the download itself: what was downloaded under a file's name was
\* produced from that file.
C10_DownloadedConsistent ==
  downloaded.content # <<>> =>
    /\ downloaded.name # "null"
    /\ downloaded.content
         = <<convertToNormalizedClipPath(fileNamed(downloaded.name).content).paths>>

====
